---- MODULE Spec2Model ----
(***************************************************************************)
(* The book-tracking REST backend of api/views.py, api/serializers.py and  *)
(* api/migrations/0004: the tables (books, reading records, reviews, the    *)
(* favorite-books through table), and one action per HTTP handler.  Every   *)
(* action is a whole request: permission check, queryset, mutation and the  *)
(* response, which is kept in the variable resp together with the parts of  *)
(* the request the properties refer to.                                     *)
(***************************************************************************)
EXTENDS Integers, Sequences, FiniteSets, TLC

\* ------------------------------------------------------------- bounds
\* The autoincrement primary keys are capped: no insert once the table's
\* sequence has handed out this many keys.
MaxBookPk == 2
MaxRecordPk == 2
MaxReviewPk == 2
MaxFavPk == 2
\* Rows inserted into the record, review and favorite tables together, where
\* all three are written.
MaxRows == 2

\* ------------------------------------------------------------- values
Users == {"ann", "bob"}
\* ann is staff (an admin); bob is an ordinary reader.
Staff == {"ann"}
Anonymous == "anonymous"
NULL == "NULL"

\* Titles and search terms are sequences of characters.
Titles == {<<"A", "b">>, <<"b">>}
Authors == {"x", "y"}
SearchTerms == {<< >>, <<"B">>, <<"a", "B">>, <<"b", "b">>}
NoSearch == [present |-> FALSE, term |-> << >>]
QueryParams == {NoSearch} \cup {[present |-> TRUE, term |-> s] : s \in SearchTerms}

ReadingStates == {"wr", "rg"}

\* Review bodies and full-text search terms are sequences of words.
Bodies == {<<"Good", "read">>, <<"dull">>}
BodyTerms == {<< >>, <<"good">>, <<"READ", "good">>, <<"dull", "read">>}
BodyParams == {NoSearch} \cup {[present |-> TRUE, term |-> s] : s \in BodyTerms}

BookPks == 1..MaxBookPk

VARIABLES users, books, nextBookPk, records, nextRecordPk, reviews,
          nextReviewPk, favorites, nextFavPk, resp

vars == <<users, books, nextBookPk, records, nextRecordPk, reviews,
          nextReviewPk, favorites, nextFavPk, resp>>

tables == <<books, records, reviews, favorites>>

\* ------------------------------------------------------------- text
Upper(c) == CASE c = "a" -> "A" [] c = "b" -> "B" [] OTHER -> c

UpperSeq(s) == [i \in 1..Len(s) |-> Upper(s[i])]

\* t LIKE '%s%': s occurs in t as a contiguous run.
Contains(t, s) ==
    \E i \in 1..(Len(t) + 1) :
        /\ i + Len(s) - 1 <= Len(t)
        /\ SubSeq(t, i, i + Len(s) - 1) = s

\* Variant: title__contains, which keeps the case.
IContainsCaseSensitive(t, s) == Contains(t, s)

\* title__icontains: UPPER(title) LIKE UPPER('%term%').
IContains(t, s) == Contains(UpperSeq(t), UpperSeq(s))

LowerWord(w) ==
    CASE w = "Good" -> "good" [] w = "READ" -> "read" [] OTHER -> w

\* The lexemes of a text: its words, lower-cased.
Lexemes(ws) == {LowerWord(ws[i]) : i \in 1..Len(ws)}

\* body__search: to_tsvector(body) @@ plainto_tsquery(term); every lexeme of
\* the term occurs in the body, and a term without lexemes matches nothing.
BodySearch(body, term) ==
    /\ Lexemes(term) # {}
    /\ Lexemes(term) \subseteq Lexemes(body)

\* Character order of the database collation, for ORDER BY title.
CharCode(c) == CASE c = "A" -> 1 [] c = "B" -> 2 [] c = "a" -> 3 [] OTHER -> 4

RECURSIVE TitleLess(_, _)
TitleLess(s, t) ==
    IF s = << >> THEN t # << >>
    ELSE IF t = << >> THEN FALSE
    ELSE IF CharCode(Head(s)) # CharCode(Head(t))
         THEN CharCode(Head(s)) < CharCode(Head(t))
         ELSE TitleLess(Tail(s), Tail(t))

\* ------------------------------------------------------------- database
\* Book rows are [pk, title, author, featured] (publication_year, which no
\* handler reads, is left out); record rows [pk, reader, book, reading_state];
\* review rows [pk, body, book, reviewed_by]; favorite rows [pk, user, book].

\* Book: title and author unique together.
UniqueBook(bs, row) ==
    ~ \E b \in bs : b.pk # row.pk /\ b.title = row.title /\ b.author = row.author

\* BookRecord: unique per reader and book.
UniqueRecord(rs, row) ==
    ~ \E r \in rs : r.pk # row.pk /\ r.reader = row.reader /\ r.book = row.book

\* Variant: the table without the constraint.
UniqueUserReviewOff(rs, row) == TRUE

\* UniqueConstraint(fields=("reviewed_by", "book"), name="unique_user_review");
\* a NULL reviewed_by never conflicts.
UniqueUserReview(rs, row) ==
    \/ row.reviewed_by = NULL
    \/ ~ \E r \in rs : /\ r.pk # row.pk
                       /\ r.reviewed_by = row.reviewed_by
                       /\ r.book = row.book

\* reviewed_by: on_delete SET_NULL.
SetNullReviewer(rs, u) ==
    {IF r.reviewed_by = u THEN [r EXCEPT !.reviewed_by = NULL] ELSE r : r \in rs}

\* book: on_delete CASCADE.
CascadeBook(rs, bk) == {r \in rs : r.book # bk}

BookByPk(pk) == CHOOSE b \in books : b.pk = pk

BookExists(pk) == \E b \in books : b.pk = pk

\* ------------------------------------------------------------- serializers
BookSerializer(b) ==
    [pk |-> b.pk, title |-> b.title, author |-> b.author, featured |-> b.featured]

BookDetailSerializer(b, revs) ==
    [pk |-> b.pk, title |-> b.title, author |-> b.author, featured |-> b.featured,
     reviews |-> {r.pk : r \in {x \in revs : x.book = b.pk}}]

\* book and reader are read-only: only reading_state is taken from the body.
BookRecordSerializerInput(body) == [reading_state |-> body.reading_state]

BookRecordSerializer(r) ==
    [pk |-> r.pk, book |-> BookSerializer(BookByPk(r.book)), reader |-> r.reader,
     reading_state |-> r.reading_state]

BookReviewSerializer(r) ==
    [pk |-> r.pk, body |-> r.body, book |-> BookByPk(r.book).title,
     reviewed_by |-> r.reviewed_by]

\* ------------------------------------------------------------- permissions
Requesters == users \cup {Anonymous}

IsAuthenticated(u) == u \in users

SafeMethods == {"GET", "HEAD", "OPTIONS"}

IsAdminOrReadOnly(u, method) == method \in SafeMethods \/ u \in Staff

IsReaderOrReadOnly(u, method, rec) == method \in SafeMethods \/ rec.reader = u

\* ------------------------------------------------------------- responses
DuplicateBookError ==
    "Unique constraint violation: there is already a book with this title by this author."

DuplicateRecordError ==
    "Unique constraint violation: this user has already created a book record for this book."

NoTitle == << >>

Request(op, u, bk) ==
    [op |-> op, user |-> u, book_pk |-> bk, search |-> NoSearch, status |-> 0,
     error |-> "", data |-> {}, ordered |-> << >>, title |-> NoTitle, author |-> ""]

Response(rq, st, data) == [rq EXCEPT !.status = st, !.data = data]

ErrorResponse(rq, st, err) == [rq EXCEPT !.status = st, !.error = err]

\* An unauthenticated request is refused with 401 or 403, by the
\* authentication scheme in use.
NotAuthenticated(op, u) ==
    /\ \E st \in {401, 403} :
          resp' = ErrorResponse(Request(op, u, 0), st, "not authenticated")
    /\ UNCHANGED <<users, books, nextBookPk, records, nextRecordPk, reviews,
                   nextReviewPk, favorites, nextFavPk>>

\* A response that leaves every table as it is.
Reply(r) ==
    /\ resp' = r
    /\ UNCHANGED <<users, books, nextBookPk, records, nextRecordPk, reviews,
                   nextReviewPk, favorites, nextFavPk>>

\* ------------------------------------------------------------- BookViewSet
\* The orders in which ORDER BY title may return the rows of bs (rows with
\* equal titles come in either order), as sequences of primary keys.
OrderByTitle(bs) ==
    {o \in [1..Cardinality(bs) -> {b.pk : b \in bs}] :
        /\ \A i, j \in 1..Cardinality(bs) : i # j => o[i] # o[j]
        /\ \A i, j \in 1..Cardinality(bs) :
              i < j => ~ TitleLess(BookByPk(o[j]).title, BookByPk(o[i]).title)}

\* BookViewSet.get_queryset: the rows the view works on.
BookQueryset(q) ==
    IF q.present THEN {b \in books : IContains(b.title, q.term)} ELSE books

\* GET /books/[?search=]
BookList(u, q) ==
    LET rq == [Request("book_list", u, 0) EXCEPT !.search = q] IN
    IF ~ IsAuthenticated(u) THEN NotAuthenticated(rq.op, u)
    ELSE LET qs == BookQueryset(q)
             data == {BookSerializer(b) : b \in qs} IN
         IF q.present THEN Reply(Response(rq, 200, data))
         ELSE \E o \in OrderByTitle(qs) :
                 Reply([Response(rq, 200, data) EXCEPT !.ordered = o])

\* Variant: a create without the except clause.
BookCreateUncaught(rq) == ErrorResponse(rq, 500, "IntegrityError")

\* BookViewSet.create: except IntegrityError
BookCreateIntegrityError(rq) == ErrorResponse(rq, 400, DuplicateBookError)

\* POST /books/
BookCreate(u, title, author, featured) ==
    LET rq == [Request("book_create", u, 0) EXCEPT !.title = title, !.author = author]
        row == [pk |-> nextBookPk, title |-> title, author |-> author,
                featured |-> featured] IN
    IF ~ IsAuthenticated(u) THEN NotAuthenticated(rq.op, u)
    ELSE IF ~ IsAdminOrReadOnly(u, "POST")
    THEN Reply(ErrorResponse(rq, 403, "permission denied"))
    ELSE IF ~ UniqueBook(books, row)
    THEN Reply(BookCreateIntegrityError(rq))
    ELSE /\ nextBookPk <= MaxBookPk
         /\ books' = books \cup {row}
         /\ nextBookPk' = nextBookPk + 1
         /\ resp' = Response(rq, 201, {BookDetailSerializer(row, reviews)})
         /\ UNCHANGED <<users, records, nextRecordPk, reviews, nextReviewPk,
                        favorites, nextFavPk>>

\* GET /books/<pk>/
BookRetrieve(u, pk, q) ==
    LET rq == [Request("book_retrieve", u, pk) EXCEPT !.search = q] IN
    IF ~ IsAuthenticated(u) THEN NotAuthenticated(rq.op, u)
    ELSE IF ~ \E b \in BookQueryset(q) : b.pk = pk
    THEN Reply(ErrorResponse(rq, 404, "not found"))
    ELSE Reply(Response(rq, 200, {BookDetailSerializer(BookByPk(pk), reviews)}))

\* PUT or PATCH /books/<pk>/ : the row's fields after the update are given.
BookUpdate(u, pk, q, title, author, featured) ==
    LET rq == [Request("book_update", u, pk) EXCEPT !.search = q]
        row == [pk |-> pk, title |-> title, author |-> author,
                featured |-> featured] IN
    IF ~ IsAuthenticated(u) THEN NotAuthenticated(rq.op, u)
    ELSE IF ~ IsAdminOrReadOnly(u, "PUT")
    THEN Reply(ErrorResponse(rq, 403, "permission denied"))
    ELSE IF ~ \E b \in BookQueryset(q) : b.pk = pk
    THEN Reply(ErrorResponse(rq, 404, "not found"))
    ELSE IF ~ UniqueBook(books, row)
    THEN \* IntegrityError, which update does not catch
         Reply(ErrorResponse(rq, 500, "IntegrityError"))
    ELSE /\ books' = (books \ {BookByPk(pk)}) \cup {row}
         /\ resp' = Response(rq, 200, {BookDetailSerializer(row, reviews)})
         /\ UNCHANGED <<users, nextBookPk, records, nextRecordPk, reviews,
                        nextReviewPk, favorites, nextFavPk>>

\* DELETE /books/<pk>/ : the rows that refer to the book go with it.
BookDestroy(u, pk, q) ==
    LET rq == [Request("book_destroy", u, pk) EXCEPT !.search = q] IN
    IF ~ IsAuthenticated(u) THEN NotAuthenticated(rq.op, u)
    ELSE IF ~ IsAdminOrReadOnly(u, "DELETE")
    THEN Reply(ErrorResponse(rq, 403, "permission denied"))
    ELSE IF ~ \E b \in BookQueryset(q) : b.pk = pk
    THEN Reply(ErrorResponse(rq, 404, "not found"))
    ELSE /\ books' = books \ {BookByPk(pk)}
         /\ records' = CascadeBook(records, pk)
         /\ reviews' = CascadeBook(reviews, pk)
         /\ favorites' = CascadeBook(favorites, pk)
         /\ resp' = Response(rq, 204, {})
         /\ UNCHANGED <<users, nextBookPk, nextRecordPk, nextReviewPk, nextFavPk>>

\* Variant: the featured books of get_queryset, which reads the search term.
FeaturedUsingQueryset(q) == {b \in BookQueryset(q) : b.featured}

\* Book.objects.filter(featured=True)
Featured(q) == {b \in books : b.featured}

\* GET /books/featured/[?search=]
BookFeatured(u, q) ==
    LET rq == [Request("featured", u, 0) EXCEPT !.search = q] IN
    IF ~ IsAuthenticated(u) THEN NotAuthenticated(rq.op, u)
    ELSE Reply(Response(rq, 200, {BookDetailSerializer(b, reviews) : b \in Featured(q)}))

\* Variant: the books any user has as a favorite.
FavoriteBooksOfAnyone(u) ==
    {b \in books : \E f \in favorites : f.book = b.pk}

\* request.user.favorite_books.all()
FavoriteBooks(u) ==
    {b \in books : \E f \in favorites : f.user = u /\ f.book = b.pk}

\* GET /books/favorites/
BookFavorites(u) ==
    LET rq == Request("favorites", u, 0) IN
    IF ~ IsAuthenticated(u) THEN NotAuthenticated(rq.op, u)
    ELSE Reply(Response(rq, 200, {BookDetailSerializer(b, reviews) : b \in FavoriteBooks(u)}))

\* ------------------------------------------------------------- BookRecordViewSet
\* Variant: the filter on the book alone.
RecordQuerysetAnyReader(u, bk) == {r \in records : r.book = bk}

\* BookRecordViewSet.get_queryset
RecordQueryset(u, bk) == {r \in records : r.reader = u /\ r.book = bk}

\* GET /books/<book_pk>/book_records/[?search=] : get_queryset reads no
\* query parameter.
RecordList(u, bk, q) ==
    LET rq == [Request("record_list", u, bk) EXCEPT !.search = q] IN
    IF ~ IsAuthenticated(u) THEN NotAuthenticated(rq.op, u)
    ELSE Reply(Response(rq, 200, {BookRecordSerializer(r) : r \in RecordQueryset(u, bk)}))

\* perform_create: serializer.save(reader=self.request.user, book=book)
RecordCreateRow(u, bk, body) ==
    [pk |-> nextRecordPk, reader |-> u, book |-> bk,
     reading_state |-> BookRecordSerializerInput(body).reading_state]

\* Variant: a create without the except clause.
RecordCreateUncaught(rq) == ErrorResponse(rq, 500, "IntegrityError")

\* BookRecordViewSet.create: except IntegrityError
RecordCreateIntegrityError(rq) == ErrorResponse(rq, 400, DuplicateRecordError)

\* POST /books/<book_pk>/book_records/
RecordCreate(u, bk, body) ==
    LET rq == Request("record_create", u, bk)
        row == RecordCreateRow(u, bk, body) IN
    IF ~ IsAuthenticated(u) THEN NotAuthenticated(rq.op, u)
    ELSE IF ~ BookExists(bk)
    THEN Reply(ErrorResponse(rq, 404, "not found"))
    ELSE IF ~ UniqueRecord(records, row)
    THEN Reply(RecordCreateIntegrityError(rq))
    ELSE /\ nextRecordPk <= MaxRecordPk
         /\ records' = records \cup {row}
         /\ nextRecordPk' = nextRecordPk + 1
         /\ resp' = Response(rq, 201, {BookRecordSerializer(row)})
         /\ UNCHANGED <<users, books, nextBookPk, reviews, nextReviewPk,
                        favorites, nextFavPk>>

\* GET /books/<book_pk>/book_records/<pk>/
RecordRetrieve(u, bk, pk) ==
    LET rq == Request("record_retrieve", u, bk) IN
    IF ~ IsAuthenticated(u) THEN NotAuthenticated(rq.op, u)
    ELSE IF ~ \E r \in RecordQueryset(u, bk) : r.pk = pk
    THEN Reply(ErrorResponse(rq, 404, "not found"))
    ELSE Reply(Response(rq, 200,
               {BookRecordSerializer(r) : r \in {x \in RecordQueryset(u, bk) : x.pk = pk}}))

\* PUT or PATCH /books/<book_pk>/book_records/<pk>/
RecordUpdate(u, bk, pk, body) ==
    LET rq == Request("record_update", u, bk) IN
    IF ~ IsAuthenticated(u) THEN NotAuthenticated(rq.op, u)
    ELSE IF ~ \E r \in RecordQueryset(u, bk) : r.pk = pk
    THEN Reply(ErrorResponse(rq, 404, "not found"))
    ELSE LET old == CHOOSE r \in RecordQueryset(u, bk) : r.pk = pk
             row == [old EXCEPT !.reading_state =
                                   BookRecordSerializerInput(body).reading_state] IN
         IF ~ IsReaderOrReadOnly(u, "PUT", old)
         THEN Reply(ErrorResponse(rq, 403, "permission denied"))
         ELSE /\ records' = (records \ {old}) \cup {row}
              /\ resp' = Response(rq, 200, {BookRecordSerializer(row)})
              /\ UNCHANGED <<users, books, nextBookPk, nextRecordPk, reviews,
                             nextReviewPk, favorites, nextFavPk>>

\* DELETE /books/<book_pk>/book_records/<pk>/
RecordDestroy(u, bk, pk) ==
    LET rq == Request("record_destroy", u, bk) IN
    IF ~ IsAuthenticated(u) THEN NotAuthenticated(rq.op, u)
    ELSE IF ~ \E r \in RecordQueryset(u, bk) : r.pk = pk
    THEN Reply(ErrorResponse(rq, 404, "not found"))
    ELSE LET old == CHOOSE r \in RecordQueryset(u, bk) : r.pk = pk IN
         IF ~ IsReaderOrReadOnly(u, "DELETE", old)
         THEN Reply(ErrorResponse(rq, 403, "permission denied"))
         ELSE /\ records' = records \ {old}
              /\ resp' = Response(rq, 204, {})
              /\ UNCHANGED <<users, books, nextBookPk, nextRecordPk, reviews,
                             nextReviewPk, favorites, nextFavPk>>

\* ------------------------------------------------------------- reviews
\* Variant: the search over the reviews of every book.
ReviewQuerysetAllBooks(bk, q) ==
    IF q.present THEN {r \in reviews : BodySearch(r.body, q.term)} ELSE reviews

\* BookReviewListCreateView.get_queryset
ReviewQueryset(bk, q) ==
    LET queryset == {r \in reviews : r.book = bk} IN
    IF q.present THEN {r \in queryset : BodySearch(r.body, q.term)} ELSE queryset

\* GET /books/<book_pk>/reviews/[?search=]
ReviewList(u, bk, q) ==
    LET rq == [Request("review_list", u, bk) EXCEPT !.search = q] IN
    IF ~ IsAuthenticated(u) THEN NotAuthenticated(rq.op, u)
    ELSE Reply(Response(rq, 200, {BookReviewSerializer(r) : r \in ReviewQueryset(bk, q)}))

\* POST /books/<book_pk>/reviews/
ReviewCreate(u, bk, body) ==
    LET rq == Request("review_create", u, bk)
        row == [pk |-> nextReviewPk, body |-> body, book |-> bk, reviewed_by |-> u] IN
    IF ~ IsAuthenticated(u) THEN NotAuthenticated(rq.op, u)
    ELSE IF ~ BookExists(bk)
    THEN Reply(ErrorResponse(rq, 404, "not found"))
    ELSE IF ~ UniqueUserReview(reviews, row)
    THEN \* IntegrityError: the view has no create that catches it
         Reply(ErrorResponse(rq, 500, "IntegrityError"))
    ELSE /\ nextReviewPk <= MaxReviewPk
         /\ reviews' = reviews \cup {row}
         /\ nextReviewPk' = nextReviewPk + 1
         /\ resp' = Response(rq, 201, {BookReviewSerializer(row)})
         /\ UNCHANGED <<users, books, nextBookPk, records, nextRecordPk,
                        favorites, nextFavPk>>

\* GET /book_reviews/<pk>/ (BookReviewDetailView names no permission class)
ReviewRetrieve(u, pk) ==
    LET rq == Request("review_retrieve", u, 0) IN
    IF ~ \E r \in reviews : r.pk = pk
    THEN Reply(ErrorResponse(rq, 404, "not found"))
    ELSE Reply(Response(rq, 200, {BookReviewSerializer(r) : r \in {x \in reviews : x.pk = pk}}))

\* DELETE /book_reviews/<pk>/
ReviewDestroy(u, pk) ==
    LET rq == Request("review_destroy", u, 0) IN
    IF ~ \E r \in reviews : r.pk = pk
    THEN Reply(ErrorResponse(rq, 404, "not found"))
    ELSE /\ reviews' = {r \in reviews : r.pk # pk}
         /\ resp' = Response(rq, 204, {})
         /\ UNCHANGED <<users, books, nextBookPk, records, nextRecordPk,
                        nextReviewPk, favorites, nextFavPk>>

\* ------------------------------------------------------------- favorites
\* Variant: an insert that does not look for the pair first.
FavoriteAddAlways(u, bk) == {[pk |-> nextFavPk, user |-> u, book |-> bk]}

\* user.favorite_books.add(book): the through rows to insert, none when the
\* pair is already there.
FavoriteAdd(u, bk) ==
    IF \E f \in favorites : f.user = u /\ f.book = bk
    THEN {}
    ELSE {[pk |-> nextFavPk, user |-> u, book |-> bk]}

\* POST /books/<book_pk>/favorites/
CreateFavorite(u, bk) ==
    LET rq == Request("create_favorite", u, bk)
        new == FavoriteAdd(u, bk) IN
    IF ~ IsAuthenticated(u) THEN NotAuthenticated(rq.op, u)
    ELSE IF ~ BookExists(bk)
    THEN Reply(ErrorResponse(rq, 404, "not found"))
    ELSE /\ new # {} => nextFavPk <= MaxFavPk
         /\ favorites' = favorites \cup new
         /\ nextFavPk' = nextFavPk + Cardinality(new)
         /\ resp' = Response(rq, 201, {BookDetailSerializer(BookByPk(bk), reviews)})
         /\ UNCHANGED <<users, books, nextBookPk, records, nextRecordPk,
                        reviews, nextReviewPk>>

\* ------------------------------------------------------------- users
\* A user account is deleted: the reviews stay with a null reviewer, the
\* user's records and favorites go.
DeleteUser(u) ==
    /\ u \in users
    /\ users' = users \ {u}
    /\ reviews' = SetNullReviewer(reviews, u)
    /\ records' = {r \in records : r.reader # u}
    /\ favorites' = {f \in favorites : f.user # u}
    /\ resp' = Request("none", Anonymous, 0)
    /\ UNCHANGED <<books, nextBookPk, nextRecordPk, nextReviewPk, nextFavPk>>

\* ------------------------------------------------------------- specification
\* Bodies of a record-create request: a body may name a reader and a book of
\* its own, whatever the user and the URL are.
RecordBodies ==
    [reading_state : ReadingStates, reader : Users, book : {1}]

\* Query parameters sent to the record list.
RecordListParams == {NoSearch, [present |-> TRUE, term |-> <<"a", "B">>]}

Init ==
    /\ users = Users
    /\ books = {}
    /\ nextBookPk = 1
    /\ records = {}
    /\ nextRecordPk = 1
    /\ reviews = {}
    /\ nextReviewPk = 1
    /\ favorites = {}
    /\ nextFavPk = 1
    /\ resp = Request("none", Anonymous, 0)

\* Requests with plain bodies, used where the books only have to exist.
PlainBookCreate ==
    \E u \in Requesters, t \in Titles : BookCreate(u, t, "x", FALSE)

PlainBookDestroy ==
    \E u \in Requesters, pk \in BookPks : BookDestroy(u, pk, NoSearch)

\* The book endpoints.
NextBooks ==
    \/ \E u \in Requesters, q \in QueryParams : BookList(u, q)
    \/ \E u \in Requesters, t \in Titles, a \in Authors, f \in BOOLEAN :
          BookCreate(u, t, a, f)
    \/ \E u \in Requesters, pk \in BookPks, q \in QueryParams : BookRetrieve(u, pk, q)
    \/ \E u \in Requesters, pk \in BookPks, q \in QueryParams,
          t \in Titles, a \in Authors, f \in BOOLEAN : BookUpdate(u, pk, q, t, a, f)
    \/ \E u \in Requesters, pk \in BookPks, q \in QueryParams : BookDestroy(u, pk, q)
    \/ \E u \in Requesters, q \in QueryParams : BookFeatured(u, q)

SpecBooks == Init /\ [][NextBooks]_vars

\* The reading-record endpoints of the books, and the book list.
NextRecords ==
    \/ PlainBookCreate
    \/ PlainBookDestroy
    \/ \E u \in Requesters, q \in QueryParams : BookList(u, q)
    \/ \E u \in Requesters, bk \in BookPks, q \in RecordListParams :
          RecordList(u, bk, q)
    \/ \E u \in Requesters, bk \in BookPks, body \in RecordBodies :
          RecordCreate(u, bk, body)
    \/ \E u \in Requesters, bk \in BookPks, pk \in 1..MaxRecordPk :
          RecordRetrieve(u, bk, pk)
    \/ \E u \in Requesters, bk \in BookPks, pk \in 1..MaxRecordPk,
          st \in ReadingStates :
          RecordUpdate(u, bk, pk, [reading_state |-> st, reader |-> u, book |-> bk])
    \/ \E u \in Requesters, bk \in BookPks, pk \in 1..MaxRecordPk :
          RecordDestroy(u, bk, pk)

SpecRecords == Init /\ [][NextRecords]_vars

\* The review endpoints of the books.
NextReviews ==
    \/ PlainBookCreate
    \/ PlainBookDestroy
    \/ \E u \in Requesters, bk \in BookPks, q \in BodyParams : ReviewList(u, bk, q)
    \/ \E u \in Requesters, bk \in BookPks, body \in Bodies : ReviewCreate(u, bk, body)
    \/ \E u \in Requesters, pk \in 1..MaxReviewPk : ReviewRetrieve(u, pk)
    \/ \E u \in Requesters, pk \in 1..MaxReviewPk : ReviewDestroy(u, pk)
    \/ \E u \in Users : DeleteUser(u)

SpecReviews == Init /\ [][NextReviews]_vars

\* Every request that writes, with plain bodies and by the users that exist,
\* and the favorites list.  At most MaxRows rows are inserted into the
\* record, review and favorite tables together.
InBudget ==
    (nextRecordPk - 1) + (nextReviewPk - 1) + (nextFavPk - 1) <= MaxRows

PlainRecordBody(u, bk) == [reading_state |-> "wr", reader |-> u, book |-> bk]

NextWrites ==
    \/ PlainBookCreate
    \/ \E u \in users, pk \in BookPks, t \in Titles :
          BookUpdate(u, pk, NoSearch, t, "x", FALSE)
    \/ PlainBookDestroy
    \/ \E u \in users, bk \in BookPks :
          RecordCreate(u, bk, PlainRecordBody(u, bk)) /\ InBudget'
    \/ \E u \in users, bk \in BookPks, pk \in 1..MaxRecordPk :
          RecordUpdate(u, bk, pk, PlainRecordBody(u, bk))
    \/ \E u \in users, bk \in BookPks, pk \in 1..MaxRecordPk :
          RecordDestroy(u, bk, pk)
    \/ \E u \in users, bk \in BookPks : ReviewCreate(u, bk, <<"dull">>) /\ InBudget'
    \/ \E u \in users, pk \in 1..MaxReviewPk : ReviewDestroy(u, pk)
    \/ \E u \in users, bk \in BookPks : CreateFavorite(u, bk) /\ InBudget'
    \/ \E u \in users : BookFavorites(u)
    \/ \E u \in Users : DeleteUser(u)

SpecWrites == Init /\ [][NextWrites]_vars

\* ------------------------------------------------------------- properties
Pks(data) == {d.pk : d \in data}

IsError(st) == st >= 400

\* C1: a book-create request by an admin for a (title, author) pair that a
\* stored book already has is answered 400 with the duplicate-book error,
\* and the book table (and every other table) is as before.
C1_DuplicateBookIs400 ==
    [][(/\ resp'.op = "book_create"
        /\ resp'.user \in users \cap Staff
        /\ \E b \in books : b.title = resp'.title /\ b.author = resp'.author)
       => (/\ resp'.status = 400
           /\ resp'.error = DuplicateBookError
           /\ resp'.data = {}
           /\ books' = books
           /\ tables' = tables)]_vars

\* A duplicate pair was refused while another book shares only the title.
C1_Witness ==
    /\ resp.op = "book_create"
    /\ resp.status = 400
    /\ \E b \in books : b.title = resp.title /\ b.author = resp.author
    /\ \E b \in books : b.title = resp.title /\ b.author # resp.author

\* C5: the featured endpoint, called by an authenticated user with any query
\* parameters, answers 200 with exactly the stored books whose featured flag
\* is set, and changes no table.
C5_FeaturedExact ==
    /\ [](resp.op = "featured" /\ resp.user \in users =>
            /\ resp.status = 200
            /\ \A d \in resp.data :
                  \E b \in books : /\ b.pk = d.pk /\ b.featured
                                   /\ d.title = b.title /\ d.author = b.author
                                   /\ d.featured
            /\ \A b \in books : b.featured => b.pk \in Pks(resp.data))
    /\ [][resp'.op = "featured" => tables' = tables]_vars

\* The featured list was asked with a search term that the title of a
\* returned book does not contain, while an unfeatured book is stored.
C5_Witness ==
    /\ resp.op = "featured"
    /\ resp.status = 200
    /\ resp.search.present
    /\ \E d \in resp.data : ~ IContains(d.title, resp.search.term)
    /\ \E b \in books : ~ b.featured

\* C2: a record-create request by an authenticated user under an existing
\* book for which that user already has a record is answered 400 with the
\* duplicate-record error, which is not the duplicate-book error, and the
\* record table is as before.
C2_DuplicateRecordIs400 ==
    [][(/\ resp'.op = "record_create"
        /\ resp'.user \in users
        /\ BookExists(resp'.book_pk)
        /\ \E r \in records : r.reader = resp'.user /\ r.book = resp'.book_pk)
       => (/\ resp'.status = 400
           /\ resp'.error = DuplicateRecordError
           /\ resp'.error # DuplicateBookError
           /\ resp'.data = {}
           /\ records' = records
           /\ tables' = tables)]_vars

\* A second record of the same reader and book was refused while the other
\* user has a record of that book too.
C2_Witness ==
    /\ resp.op = "record_create"
    /\ resp.status = 400
    /\ \E r \in records : r.reader = resp.user /\ r.book = resp.book_pk
    /\ \E r \in records : r.reader # resp.user /\ r.book = resp.book_pk

\* C3: a review-create request by an authenticated user who already has a
\* review of the book is answered with a structured 400, and no second
\* review is stored.
C3_DuplicateReviewIs400 ==
    [][(/\ resp'.op = "review_create"
        /\ resp'.user \in users
        /\ \E r \in reviews : r.reviewed_by = resp'.user /\ r.book = resp'.book_pk)
       => (/\ resp'.status = 400
           /\ reviews' = reviews)]_vars

\* C4: add-favorite is an idempotent set-add.  A pair of user and book is in
\* the through table at most once; after an add-favorite request of an
\* authenticated user for an existing book the pair is there exactly once and
\* the answer is 201 with the book's detail representation; a request for a
\* pair that is already there leaves the table as it is.
C4_FavoriteIdempotent ==
    /\ [](\A u \in Users, bk \in BookPks :
             Cardinality({f \in favorites : f.user = u /\ f.book = bk}) <= 1)
    /\ [][(/\ resp'.op = "create_favorite"
           /\ resp'.user \in users
           /\ BookExists(resp'.book_pk))
          => (/\ resp'.status = 201
              /\ resp'.data = {BookDetailSerializer(BookByPk(resp'.book_pk), reviews)}
              /\ Cardinality({f \in favorites' : /\ f.user = resp'.user
                                                 /\ f.book = resp'.book_pk}) = 1
              /\ (\E f \in favorites : f.user = resp'.user /\ f.book = resp'.book_pk)
                    => favorites' = favorites)]_vars

\* An add-favorite request was repeated: it is the last request, and the
\* row of its pair is older than another row of the through table.
C4_Witness ==
    /\ resp.op = "create_favorite"
    /\ resp.status = 201
    /\ \E f, g \in favorites :
          /\ f.user = resp.user /\ f.book = resp.book_pk
          /\ f.pk < g.pk

\* C6: the favorites endpoint answers an authenticated user with exactly the
\* books of that user's favorite rows; an add-favorite request changes no
\* other user's favorite rows and no book, record or review.
C6_FavoritesOwnOnly ==
    /\ [](resp.op = "favorites" /\ resp.user \in users =>
            /\ resp.status = 200
            /\ Pks(resp.data) = {f.book : f \in {x \in favorites : x.user = resp.user}}
            /\ \A d \in resp.data :
                  \E b \in books : b.pk = d.pk /\ b.title = d.title)
    /\ [][resp'.op = "create_favorite" =>
            /\ books' = books
            /\ records' = records
            /\ reviews' = reviews
            /\ {f \in favorites' : f.user # resp'.user}
                  = {f \in favorites : f.user # resp'.user}]_vars

\* A user's favorites were listed while the other user has a favorite the
\* list does not show.
C6_Witness ==
    /\ resp.op = "favorites"
    /\ resp.data # {}
    /\ \E f \in favorites : f.user # resp.user /\ f.book \notin Pks(resp.data)

\* A title contains a term ignoring case: at some offset every character of
\* the term equals the title's up to case.
TitleContains(t, term) ==
    \E k \in 0..Len(t) :
        /\ k + Len(term) <= Len(t)
        /\ \A j \in 1..Len(term) : Upper(t[k + j]) = Upper(term[j])

\* C7 as stated, for the record list: a record list asked with a search
\* term returns only items whose title contains the term ignoring case.
C7_RecordListFiltersTitle ==
    (resp.op = "record_list" /\ resp.status = 200 /\ resp.search.present)
       => \A d \in resp.data : TitleContains(d.book.title, resp.search.term)

\* C7, amended: the book list asked with a search term returns exactly the
\* stored books whose title contains the term ignoring case (the empty term
\* matches all), and asked without one returns every book, ordered by title;
\* the record list returns the user's records of the book whatever search
\* term is sent.
C7_BookListFiltersTitle ==
    /\ (resp.op = "book_list" /\ resp.user \in users) =>
          /\ resp.status = 200
          /\ resp.data \subseteq {BookSerializer(b) : b \in books}
          /\ resp.search.present =>
                Pks(resp.data) =
                   {b.pk : b \in {x \in books : TitleContains(x.title, resp.search.term)}}
          /\ (resp.search.present /\ resp.search.term = << >>) =>
                Pks(resp.data) = {b.pk : b \in books}
          /\ ~ resp.search.present =>
                /\ Pks(resp.data) = {b.pk : b \in books}
                /\ Len(resp.ordered) = Cardinality(books)
                /\ {resp.ordered[i] : i \in 1..Len(resp.ordered)} = Pks(resp.data)
                /\ \A i, j \in 1..Len(resp.ordered) :
                      i < j => ~ TitleLess(BookByPk(resp.ordered[j]).title,
                                           BookByPk(resp.ordered[i]).title)
    /\ (resp.op = "record_list" /\ resp.status = 200) =>
          Pks(resp.data) =
             {r.pk : r \in {x \in records : /\ x.reader = resp.user
                                            /\ x.book = resp.book_pk}}

\* The book list was asked for a term in the other case than the titles
\* have it, and returned some books and not others.
C7_Witness ==
    /\ resp.op = "book_list"
    /\ resp.search.present
    /\ resp.data # {}
    /\ \E d \in resp.data : ~ Contains(d.title, resp.search.term)
    /\ \E b \in books : b.pk \notin Pks(resp.data)

\* A body matches a full-text term: the term has a word, and each of its
\* words is a word of the body, ignoring case.
BodyMatches(body, term) ==
    /\ Len(term) > 0
    /\ \A j \in 1..Len(term) :
          \E i \in 1..Len(body) : LowerWord(body[i]) = LowerWord(term[j])

\* C8: the review list of a book returns only reviews of that book: asked
\* with a search term exactly those whose body matches it, asked without one
\* all of them.
C8_ReviewListOfBook ==
    (resp.op = "review_list" /\ resp.user \in users) =>
       /\ resp.status = 200
       /\ Pks(resp.data) =
             {r.pk : r \in {x \in reviews :
                               /\ x.book = resp.book_pk
                               /\ resp.search.present
                                     => BodyMatches(x.body, resp.search.term)}}
       /\ \A d \in resp.data :
             \E r \in reviews : r.pk = d.pk /\ r.body = d.body /\ r.book = resp.book_pk

\* A review list asked with a search term returned a review while a review
\* of another book matches the term too.
C8_Witness ==
    /\ resp.op = "review_list"
    /\ resp.search.present
    /\ resp.data # {}
    /\ \E r \in reviews :
          r.book # resp.book_pk /\ BodyMatches(r.body, resp.search.term)

\* C9: books are unique by (title, author), records by (reader, book) and
\* reviews with a reviewer by (reviewer, book); a request answered with an
\* error leaves every table as it was.
C9_UniquenessKept ==
    /\ [](/\ \A b1, b2 \in books :
                (b1.title = b2.title /\ b1.author = b2.author) => b1 = b2
          /\ \A r1, r2 \in records :
                (r1.reader = r2.reader /\ r1.book = r2.book) => r1 = r2
          /\ \A v1, v2 \in reviews :
                (/\ v1.reviewed_by # NULL
                 /\ v1.reviewed_by = v2.reviewed_by
                 /\ v1.book = v2.book) => v1 = v2)
    /\ [][IsError(resp'.status) => tables' = tables]_vars

\* A second review by the same user was refused while the book has a review
\* whose reviewer was deleted.
C9_Witness ==
    /\ resp.op = "review_create"
    /\ IsError(resp.status)
    /\ \E v \in reviews : v.reviewed_by = resp.user /\ v.book = resp.book_pk
    /\ \E v \in reviews : v.reviewed_by = NULL /\ v.book = resp.book_pk

RecordOps ==
    {"record_list", "record_create", "record_retrieve", "record_update",
     "record_destroy"}

====
